---- MODULE Spec2Model ----
(***************************************************************************)
(* Model of assistant.py: the task store (tasks.json), the session loop    *)
(* of main(), the day rollover of check_new_day() and the task reports     *)
(* built by generate_response().                                           *)
(*                                                                         *)
(* A Python dict is a function whose DOMAIN is its set of keys, so an      *)
(* absent key ('feedback', 'reason', 'last_updated') is a key outside      *)
(* the DOMAIN, and dict.get(k, default) is Get(d, k, default).             *)
(***************************************************************************)
EXTENDS Integers, Sequences, FiniteSets, TLC

\* ---------------------------------------------------------------- bounds
MaxTasks == 2
MaxCount == 3
MaxDay == 2
\* Counters of the task drawn by InitReview.
MaxDrawnStreak == 3
MaxDrawnMissed == 4

\* ---------------------------------------------------------------- inputs
\* What the user may type at "Enter the task description".
Descriptions == {"", "Exercise"}
\* What the user may type at a (Y/N) prompt.
Answers == {"Y", "yes", "n", ""}
\* What the user may type at "Provide feedback ..." ("" = Enter pressed).
Feedbacks == {"", "tired"}
Dates == 1..MaxDay

VARIABLES
    tasks_json,   \* the file tasks.json: <<>> when missing, <<d>> when it holds dict d
    goals_json,   \* the file goals.json: <<>> when missing, <<d>> when it holds dict d
    today,        \* datetime.date.today()
    pc,           \* where main() is: "stopped", "welcome", "prompt", "review",
                  \* "advice" (inside the API call), "crashed" (left by an exception)
    data,         \* main's local `data`
    goals,        \* main's local `goals`
    i,            \* position of the summary branch's for loop in data['tasks']
    prompt,       \* generate_response's local `prompt` while its call is open, else <<>>
    reviewed      \* history: positions reviewed since the last rollover that changed the date

vars == <<tasks_json, goals_json, today, pc, data, goals, i, prompt, reviewed>>

\* ---------------------------------------------------------------- dicts
Get(d, k, default) == IF k \in DOMAIN d THEN d[k] ELSE default

Put(d, k, v) == [x \in (DOMAIN d) \cup {k} |-> IF x = k THEN v ELSE d[x]]

\* str.lower() on the answers the user may type.
lower(s) == IF s = "Y" THEN "y" ELSE s

\* Prompt.ask(...).lower() in ['y', 'yes']
IsYes(ans) == lower(ans) \in {"y", "yes"}

\* ---------------------------------------------------------------- store
EmptyDict == [x \in {} |-> 0]

new_data == [tasks |-> <<>>, streak |-> 0, previous_feedback |-> <<>>]

\* load_tasks(): the dict read from tasks.json with the three default keys
\* filled in, or the zero-value dict when the file is missing.
load_tasks(file) ==
    IF file = <<>>
    THEN new_data
    ELSE LET d0 == file[1]
             d1 == IF "tasks" \notin DOMAIN d0 THEN Put(d0, "tasks", <<>>) ELSE d0
             d2 == IF "streak" \notin DOMAIN d1 THEN Put(d1, "streak", 0) ELSE d1
             d3 == IF "previous_feedback" \notin DOMAIN d2
                   THEN Put(d2, "previous_feedback", <<>>) ELSE d2
         IN  d3

\* Mutant: only the task list is written.
save_tasks_list_only(d) == << [tasks |-> d["tasks"]] >>

\* save_tasks(data): the file after json.dump of the whole dict.
save_tasks(d) == <<d>>

\* load_goals(): the 'goals' list of goals.json, [] when the key or the file is missing.
load_goals(file) ==
    IF file = <<>> THEN <<>> ELSE Get(file[1], "goals", <<>>)

\* ---------------------------------------------------------------- reports
SpecialAttentionThreshold == 3

\* Mutant: the special-attention line already at the threshold.
task_report_at_threshold(task) ==
    [ description       |-> task["description"],
      streak            |-> task["streak"],
      feedback          |-> Get(task, "feedback", "No feedback provided"),
      previous_feedback |-> Get(task, "previous_feedback", "No previous feedback"),
      uncompleted       |-> IF task["negative_streak"] > 0
                            THEN <<task["negative_streak"]>> ELSE <<>>,
      special_attention |-> /\ task["negative_streak"] > 0
                            /\ task["negative_streak"] >= SpecialAttentionThreshold ]

\* One entry of task_reports: the fields the f-string prints for one task.
task_report(task) ==
    [ description       |-> task["description"],
      streak            |-> task["streak"],
      feedback          |-> Get(task, "feedback", "No feedback provided"),
      previous_feedback |-> Get(task, "previous_feedback", "No previous feedback"),
      uncompleted       |-> IF task["negative_streak"] > 0
                            THEN <<task["negative_streak"]>> ELSE <<>>,
      special_attention |-> /\ task["negative_streak"] > 0
                            /\ task["negative_streak"] > SpecialAttentionThreshold ]

\* generate_response(): the prompt it builds and prints (the fixed texts left out).
\* streak and previous_feedback are parameters the function never reads.
generate_response(tasks, streak, previous_feedback, goals_) ==
    [ goals_text   |-> goals_,
      task_reports |-> [k \in 1..Len(tasks) |-> task_report(tasks[k])] ]

\* ---------------------------------------------------------------- rollover
\* The early return of check_new_day.
same_day(d, t) == "last_updated" \in DOMAIN d /\ d["last_updated"] = t

\* Mutant: negative_streak is raised only when the task was not completed
\* before the reset.
reset_task_if_missed(task) ==
    IF task["repeating"]
    THEN IF ~task["completed"]
         THEN Put(task, "negative_streak", task["negative_streak"] + 1)
         ELSE Put(task, "completed", FALSE)
    ELSE task

\* Mutant: completed is not reset.
reset_task_keep_completed(task) ==
    IF task["repeating"]
    THEN Put(task, "negative_streak", task["negative_streak"] + 1)
    ELSE task

\* Mutant: one-time tasks are reset like repeating ones.
reset_task_all(task) ==
    Put(Put(task, "completed", FALSE), "negative_streak", task["negative_streak"] + 1)

\* The loop body of check_new_day for one task.
reset_task(task) ==
    IF task["repeating"]
    THEN LET t1 == Put(task, "completed", FALSE)
         IN  IF ~t1["completed"]
             THEN Put(t1, "negative_streak", t1["negative_streak"] + 1)
             ELSE t1
    ELSE task

\* Mutant: last_updated is not set.
check_new_day_undated(d, t) ==
    IF same_day(d, t)
    THEN d
    ELSE LET tasks == d["tasks"]
             snap  == [k \in 1..Len(tasks) |->
                          Get(tasks[k], "feedback", "No feedback provided")]
             d1    == Put(d, "previous_feedback", snap)
         IN  Put(d1, "tasks", [k \in 1..Len(tasks) |-> reset_task(tasks[k])])

\* Mutant: the rollover appends to previous_feedback instead of replacing it.
check_new_day_appending(d, t) ==
    IF same_day(d, t)
    THEN d
    ELSE LET tasks == d["tasks"]
             snap  == [k \in 1..Len(tasks) |->
                          Get(tasks[k], "feedback", "No feedback provided")]
             d1    == Put(d, "previous_feedback", d["previous_feedback"] \o snap)
             d2    == Put(d1, "tasks", [k \in 1..Len(tasks) |-> reset_task(tasks[k])])
         IN  Put(d2, "last_updated", t)

\* Mutant: the rollover also zeroes the global streak.
check_new_day_zero_streak(d, t) ==
    IF same_day(d, t)
    THEN d
    ELSE LET tasks == d["tasks"]
             snap  == [k \in 1..Len(tasks) |->
                          Get(tasks[k], "feedback", "No feedback provided")]
             d1    == Put(d, "previous_feedback", snap)
             d2    == Put(d1, "tasks", [k \in 1..Len(tasks) |-> reset_task(tasks[k])])
         IN  Put(Put(d2, "last_updated", t), "streak", 0)

\* check_new_day(data) on the date t: the dict it leaves in memory.
check_new_day(d, t) ==
    IF same_day(d, t)
    THEN d
    ELSE LET tasks == d["tasks"]
             snap  == [k \in 1..Len(tasks) |->
                          Get(tasks[k], "feedback", "No feedback provided")]
             d1    == Put(d, "previous_feedback", snap)
             d2    == Put(d1, "tasks", [k \in 1..Len(tasks) |-> reset_task(tasks[k])])
         IN  Put(d2, "last_updated", t)

\* check_new_day(data) on the date t: the file it leaves (it saves only
\* when it did not return early).
check_new_day_file(file, d, t) ==
    IF same_day(d, t) THEN file ELSE save_tasks(check_new_day(d, t))

\* ---------------------------------------------------------------- review
\* Mutant: a completed review does not zero negative_streak.
review_task_keep_negative(task, completed, feedback) ==
    LET t0 == IF feedback # "" THEN Put(task, "feedback", feedback) ELSE task
    IN  IF completed
        THEN Put(Put(t0, "completed", TRUE), "streak", t0["streak"] + 1)
        ELSE Put(Put(Put(Put(t0, "completed", FALSE),
                         "streak", 0),
                     "negative_streak", t0["negative_streak"] + 1),
                 "reason", IF feedback # "" THEN feedback ELSE "no reason provided")

\* Mutant: a review stores the feedback even when it is empty.
review_task_always_feedback(task, completed, feedback) ==
    LET t0 == Put(task, "feedback", feedback)
    IN  IF completed
        THEN Put(Put(Put(t0, "completed", TRUE),
                     "streak", t0["streak"] + 1),
                 "negative_streak", 0)
        ELSE Put(Put(Put(Put(t0, "completed", FALSE),
                         "streak", 0),
                     "negative_streak", t0["negative_streak"] + 1),
                 "reason", IF feedback # "" THEN feedback ELSE "no reason provided")

\* Mutant: a missed review stores the feedback as reason even when it is empty.
review_task_empty_reason(task, completed, feedback) ==
    LET t0 == IF feedback # "" THEN Put(task, "feedback", feedback) ELSE task
    IN  IF completed
        THEN Put(Put(Put(t0, "completed", TRUE),
                     "streak", t0["streak"] + 1),
                 "negative_streak", 0)
        ELSE Put(Put(Put(Put(t0, "completed", FALSE),
                         "streak", 0),
                     "negative_streak", t0["negative_streak"] + 1),
                 "reason", feedback)

\* The body of the summary branch's for loop for one task.
review_task(task, completed, feedback) ==
    LET t0 == IF feedback # "" THEN Put(task, "feedback", feedback) ELSE task
    IN  IF completed
        THEN Put(Put(Put(t0, "completed", TRUE),
                     "streak", t0["streak"] + 1),
                 "negative_streak", 0)
        ELSE Put(Put(Put(Put(t0, "completed", FALSE),
                         "streak", 0),
                     "negative_streak", t0["negative_streak"] + 1),
                 "reason", IF feedback # "" THEN feedback ELSE "no reason provided")

\* Mutant: a new task starts with a streak of 1.
new_task_started(description, repeat) ==
    [ description |-> description, completed |-> FALSE, repeating |-> repeat,
      streak |-> 1, negative_streak |-> 0 ]

\* The dict appended by the add branch.
new_task(description, repeat) ==
    [ description |-> description, completed |-> FALSE, repeating |-> repeat,
      streak |-> 0, negative_streak |-> 0 ]

\* ---------------------------------------------------------------- caps
\* A summary can raise every counter, a rollover the negative_streak of the
\* repeating tasks: both are taken only while the counters stay within MaxCount.
CountersBelowCap(tasks) ==
    \A k \in 1..Len(tasks) :
        tasks[k]["streak"] < MaxCount /\ tasks[k]["negative_streak"] < MaxCount

RolloverBelowCap(tasks) ==
    \A k \in 1..Len(tasks) :
        tasks[k]["repeating"] => tasks[k]["negative_streak"] < MaxCount

\* ---------------------------------------------------------------- session
\* `{}{}`: a tasks.json that is not one JSON document (json.load raises
\* JSONDecodeError, which load_tasks does not catch).
CorruptFile == << EmptyDict, EmptyDict >>

\* Mutant: load_tasks catches every exception of the read.
load_tasks_catches_all(file) == FALSE

\* json.load(file) raises in load_tasks.
load_tasks_raises(file) == Len(file) > 1

\* tasks.json before the first run: missing; written by hand (or by an older
\* version) with one task that has feedback, a global streak, and neither
\* previous_feedback nor last_updated; or corrupt.
InitialTaskFiles ==
    { <<>>,
      << [tasks  |-> << Put(new_task("Exercise", TRUE), "feedback", "busy") >>,
          streak |-> 2] >>,
      CorruptFile }
InitialGoalFiles == { << [goals |-> <<"Sleep">>] >> }

Init ==
    /\ tasks_json \in InitialTaskFiles
    /\ goals_json \in InitialGoalFiles
    /\ today = 1
    /\ pc = "stopped"
    /\ data = EmptyDict
    /\ goals = <<>>
    /\ i = 0
    /\ prompt = <<>>
    /\ reviewed = {}

\* The calendar date changes (at any moment, also while a session runs).
Tick ==
    /\ today < MaxDay
    /\ today' = today + 1
    /\ UNCHANGED <<tasks_json, goals_json, pc, data, goals, i, prompt, reviewed>>

\* main() starts: data = load_tasks(); check_new_day(data).
Start ==
    /\ pc \in {"stopped", "crashed"}
    /\ ~load_tasks_raises(tasks_json)
    /\ LET loaded == load_tasks(tasks_json)
       IN  /\ same_day(loaded, today) \/ RolloverBelowCap(loaded["tasks"])
           /\ data' = check_new_day(loaded, today)
           /\ tasks_json' = check_new_day_file(tasks_json, loaded, today)
           /\ reviewed' = IF same_day(loaded, today) THEN reviewed ELSE {}
    /\ pc' = "welcome"
    /\ i' = 0
    /\ prompt' = <<>>
    /\ UNCHANGED <<goals_json, today, goals>>

\* main() starts and load_tasks() raises: the exception leaves main() before
\* check_new_day.
StartFail ==
    /\ pc \in {"stopped", "crashed"}
    /\ load_tasks_raises(tasks_json)
    /\ pc' = "crashed"
    /\ UNCHANGED <<tasks_json, goals_json, today, data, goals, i, prompt, reviewed>>

\* main() goes on: the welcome is printed, goals = load_goals(), and the loop
\* reaches its first prompt.
Welcome ==
    /\ pc = "welcome"
    /\ goals' = load_goals(goals_json)
    /\ pc' = "prompt"
    /\ UNCHANGED <<tasks_json, goals_json, today, data, i, prompt, reviewed>>

\* action == "add"
Add ==
    /\ pc = "prompt"
    /\ Len(data["tasks"]) < MaxTasks
    /\ \E description \in Descriptions, ans \in Answers :
          data' = Put(data, "tasks",
                      Append(data["tasks"], new_task(description, IsYes(ans))))
    /\ tasks_json' = save_tasks(data')
    /\ UNCHANGED <<goals_json, today, pc, goals, i, prompt, reviewed>>

\* Mutant: the view branch runs the rollover check again.
View_checking_day ==
    /\ pc = "prompt"
    /\ data' = check_new_day(data, today)
    /\ tasks_json' = check_new_day_file(tasks_json, data, today)
    /\ UNCHANGED <<goals_json, today, pc, goals, i, prompt, reviewed>>

\* action == "view": the table, or "You have no tasks.", is printed.
View ==
    /\ pc = "prompt"
    /\ UNCHANGED vars

\* generate_response(...) up to its call of the API: the prompt is built and printed.
call_generate_response(d, goals_) ==
    generate_response(d["tasks"], d["streak"], d["previous_feedback"], goals_)

\* action == "summary": the branch is entered and reaches its first prompt,
\* or, with no task, the call of the API.
Summary ==
    /\ pc = "prompt"
    /\ CountersBelowCap(data["tasks"])
    /\ IF data["tasks"] # <<>>
       THEN pc' = "review" /\ i' = 1 /\ prompt' = <<>>
       ELSE pc' = "advice" /\ i' = 0 /\ prompt' = call_generate_response(data, goals)
    /\ UNCHANGED <<tasks_json, goals_json, today, data, goals, reviewed>>

\* One turn of the summary loop: the two answers for task i are applied; after
\* the last task generate_response is called and reaches the API.
ReviewTaskWith(ans, feedback) ==
    /\ pc = "review"
    /\ data' = Put(data, "tasks",
                   [data["tasks"] EXCEPT ![i] = review_task(@, IsYes(ans), feedback)])
    /\ reviewed' = reviewed \cup {i}
    /\ IF i < Len(data["tasks"])
       THEN pc' = "review" /\ i' = i + 1 /\ prompt' = <<>>
       ELSE pc' = "advice" /\ i' = 0 /\ prompt' = call_generate_response(data', goals)
    /\ UNCHANGED <<tasks_json, goals_json, today, goals>>

ReviewTask == \E ans \in Answers, feedback \in Feedbacks : ReviewTaskWith(ans, feedback)

\* The API answers: generate_response returns, the response is printed and
\* the data saved.
GenerateOk ==
    /\ pc = "advice"
    /\ tasks_json' = save_tasks(data)
    /\ prompt' = <<>>
    /\ pc' = "prompt"
    /\ UNCHANGED <<goals_json, today, data, goals, i, reviewed>>

\* client.chat.completions.create raises: the exception leaves main().
GenerateFail ==
    /\ pc = "advice"
    /\ prompt' = <<>>
    /\ pc' = "crashed"
    /\ UNCHANGED <<tasks_json, goals_json, today, data, goals, i, reviewed>>

\* action == "quit"
Quit ==
    /\ pc = "prompt"
    /\ tasks_json' = save_tasks(data)
    /\ pc' = "stopped"
    /\ UNCHANGED <<goals_json, today, data, goals, i, prompt, reviewed>>

\* any other action: "Invalid action. ..." is printed.
Invalid ==
    /\ pc = "prompt"
    /\ UNCHANGED vars

Next ==
    \/ Tick
    \/ Start
    \/ StartFail
    \/ Welcome
    \/ Add
    \/ View
    \/ Summary
    \/ ReviewTask
    \/ GenerateOk
    \/ GenerateFail
    \/ Quit
    \/ Invalid

Spec == Init /\ [][Next]_vars

\* ---------------------------------------------------------------- one review
\* The tasks a one-task list can hold when a summary starts: any counters up
\* to the drawn bounds (a one-time task never has both positive), with or
\* without feedback and reason.
DrawnTasks ==
    { t \in UNION {
               { Put(base, "streak", s)
                   : base \in { [ description |-> "Exercise", completed |-> c,
                                  repeating |-> r, streak |-> 0, negative_streak |-> n ]
                                  : c \in BOOLEAN, r \in BOOLEAN, n \in 0..MaxDrawnMissed } }
               : s \in 0..MaxDrawnStreak }
        : t["repeating"] \/ t["streak"] = 0 \/ t["negative_streak"] = 0 }

WithOptional(t, fb, rs) ==
    LET t1 == IF fb # "" THEN Put(t, "feedback", fb) ELSE t
    IN  IF rs # "" THEN Put(t1, "reason", rs) ELSE t1

\* main() inside the summary branch, at the first prompt of its loop, on a
\* saved one-task list.
InitReview ==
    /\ \E t \in DrawnTasks, fb \in {"", "busy"}, rs \in {"", "busy", "no reason provided"} :
          data = [ tasks |-> << WithOptional(t, fb, rs) >>, streak |-> 0,
                   previous_feedback |-> << "No feedback provided" >>, last_updated |-> 1 ]
    /\ tasks_json = save_tasks(data)
    /\ goals_json \in InitialGoalFiles
    /\ goals = load_goals(goals_json)
    /\ today = 1
    /\ pc = "review"
    /\ i = 1
    /\ prompt = <<>>
    /\ reviewed = {}

NextReview ==
    \/ ReviewTask
    \/ GenerateOk
    \/ GenerateFail

SpecReview == InitReview /\ [][NextReview]_vars

\* ================================================================ claims
TasksOf(d) == Get(d, "tasks", <<>>)

\* What load_tasks() would return now.
Loaded == load_tasks(tasks_json)

\* tasks.json carries today's date.
DateIsCurrent == "last_updated" \in DOMAIN Loaded /\ Loaded["last_updated"] = today

\* A session start whose check_new_day does not return early.
RolloverStep == Start /\ ~DateIsCurrent

\* Key k is absent from both dicts, or present in both with the same value.
SameKey(t1, t2, k) ==
    /\ (k \in DOMAIN t1) = (k \in DOMAIN t2)
    /\ k \in DOMAIN t1 => t1[k] = t2[k]

OneRepeating(tasks) == Len(tasks) = 1 /\ tasks[1]["repeating"]

\* C1: in every reachable state no task has streak and negative_streak both
\* positive.
C1_StreakExclusivity ==
    \A k \in 1..Len(TasksOf(data)) :
        TasksOf(data)[k]["streak"] = 0 \/ TasksOf(data)[k]["negative_streak"] = 0

\* C2: the scenario with one repeating task, step by step: a completed review
\* from streak 0 gives streak 1; the next rollover resets completed and leaves
\* negative_streak at 0; a missed review then gives streak 0 and
\* negative_streak 1; the next rollover makes negative_streak 2.
C2_ScenarioStep ==
    /\ \A ans \in Answers, fb \in Feedbacks :
          ( /\ ReviewTaskWith(ans, fb)
            /\ OneRepeating(data["tasks"])
            /\ IsYes(ans)
            /\ data["tasks"][1]["streak"] = 0
            /\ data["tasks"][1]["negative_streak"] = 0 )
          => data'["tasks"][1]["streak"] = 1
    /\ ( /\ RolloverStep
         /\ OneRepeating(Loaded["tasks"])
         /\ Loaded["tasks"][1]["completed"]
         /\ Loaded["tasks"][1]["streak"] = 1
         /\ Loaded["tasks"][1]["negative_streak"] = 0 )
       => ( /\ data'["tasks"][1]["completed"] = FALSE
            /\ data'["tasks"][1]["negative_streak"] = 0 )
    /\ \A ans \in Answers, fb \in Feedbacks :
          ( /\ ReviewTaskWith(ans, fb)
            /\ OneRepeating(data["tasks"])
            /\ ~IsYes(ans)
            /\ data["tasks"][1]["streak"] = 1
            /\ data["tasks"][1]["negative_streak"] = 0 )
          => ( /\ data'["tasks"][1]["streak"] = 0
               /\ data'["tasks"][1]["negative_streak"] = 1 )
    /\ ( /\ RolloverStep
         /\ OneRepeating(Loaded["tasks"])
         /\ ~Loaded["tasks"][1]["completed"]
         /\ Loaded["tasks"][1]["streak"] = 0
         /\ Loaded["tasks"][1]["negative_streak"] = 1 )
       => data'["tasks"][1]["negative_streak"] = 2

C2_Scenario == [][C2_ScenarioStep]_vars

\* C3: rollover is idempotent: whenever a session can start or has just
\* started, a second check_new_day with the same date, whatever the date,
\* changes neither the dict nor the file left by the first; and a session start
\* that finds today's date in last_updated leaves the loaded dict and the file
\* as they are.
C3_Twice(file, d) ==
    \A D \in Dates :
        /\ check_new_day(check_new_day(d, D), D) = check_new_day(d, D)
        /\ check_new_day_file(check_new_day_file(file, d, D), check_new_day(d, D), D)
              = check_new_day_file(file, d, D)

C3_RolloverIdempotent ==
    /\ [](pc \in {"stopped", "crashed", "welcome"} => C3_Twice(tasks_json, Loaded))
    /\ [][(Start /\ DateIsCurrent) => (data' = Loaded /\ tasks_json' = tasks_json)]_vars

\* C3 witness: a session has started on the date already in last_updated and
\* found a repeating task still completed (a rollover would have reset it).
C3_Witness ==
    /\ pc = "welcome"
    /\ "last_updated" \in DOMAIN data /\ data["last_updated"] = today
    /\ \E k \in 1..Len(data["tasks"]) :
          data["tasks"][k]["repeating"] /\ data["tasks"][k]["completed"]

\* C4: a rollover that changes last_updated adds exactly 1 to the
\* negative_streak of every repeating task, whatever its completed flag and
\* streak were, and leaves its streak, feedback and reason as they were.
C4_RolloverIncrements ==
    [][RolloverStep =>
         \A k \in 1..Len(Loaded["tasks"]) :
            Loaded["tasks"][k]["repeating"] =>
               LET old == Loaded["tasks"][k]
                   new == data'["tasks"][k]
               IN  /\ new["negative_streak"] = old["negative_streak"] + 1
                   /\ new["streak"] = old["streak"]
                   /\ SameKey(old, new, "feedback")
                   /\ SameKey(old, new, "reason")]_vars

\* C4 witness: right after a rollover a repeating task that had been completed
\* (streak > 0) has been counted as missed (negative_streak > 0).
C4_Witness ==
    /\ pc = "welcome"
    /\ reviewed = {}
    /\ \E k \in 1..Len(data["tasks"]) :
          /\ data["tasks"][k]["repeating"]
          /\ data["tasks"][k]["streak"] > 0
          /\ data["tasks"][k]["negative_streak"] > 0
          /\ "feedback" \in DOMAIN data["tasks"][k]

\* C5: right after a rollover that changes last_updated every repeating task
\* has completed = false, in memory and in the file.
C5_RepeatingReset ==
    [][RolloverStep =>
         /\ \A k \in 1..Len(data'["tasks"]) :
               data'["tasks"][k]["repeating"] => data'["tasks"][k]["completed"] = FALSE
         /\ tasks_json' = <<data'>>]_vars

\* C5 witness: right after a rollover a repeating task completed before it
\* (its streak is still positive) is no longer completed.
C5_Witness ==
    /\ pc = "welcome"
    /\ "last_updated" \in DOMAIN data /\ data["last_updated"] = today
    /\ \E k \in 1..Len(data["tasks"]) :
          /\ data["tasks"][k]["repeating"]
          /\ data["tasks"][k]["streak"] = 2
          /\ ~data["tasks"][k]["completed"]

\* C6: a session start, with or without rollover, leaves completed, streak and
\* negative_streak of every non-repeating task as the file had them; and no
\* other step changes them in memory, except the review of that very task.
C6_Kept(old, new) ==
    /\ new["completed"] = old["completed"]
    /\ new["streak"] = old["streak"]
    /\ new["negative_streak"] = old["negative_streak"]

C6_NonRepeatingStable ==
    [][/\ Start =>
            \A k \in 1..Len(Loaded["tasks"]) :
               ~Loaded["tasks"][k]["repeating"] =>
                   /\ C6_Kept(Loaded["tasks"][k], data'["tasks"][k])
                   /\ C6_Kept(Loaded["tasks"][k], load_tasks(tasks_json')["tasks"][k])
       /\ ~Start =>
            \A k \in 1..Len(TasksOf(data)) :
               (~data["tasks"][k]["repeating"] /\ ~(pc = "review" /\ k = i)) =>
                   C6_Kept(data["tasks"][k], data'["tasks"][k])]_vars

\* C6 witness: a rollover has passed (nothing reviewed since) over a
\* non-repeating task that is still completed with its streak, next to a
\* repeating task that the same rollover did reset.
C6_Witness ==
    /\ pc = "welcome"
    /\ reviewed = {}
    /\ \E k, r \in 1..Len(data["tasks"]) :
          /\ ~data["tasks"][k]["repeating"]
          /\ data["tasks"][k]["completed"]
          /\ data["tasks"][k]["streak"] > 0
          /\ data["tasks"][r]["repeating"]
          /\ data["tasks"][r]["streak"] > 0
          /\ ~data["tasks"][r]["completed"]

\* C7: no task is reviewed a second time between two rollovers.
C7_ReviewOncePerDay == [][ReviewTask => i \notin reviewed]_vars

C9_PreviousFeedbackPairing ==
    pc = "advice" =>
        \A k \in 1..Len(data["tasks"]) :
            prompt["task_reports"][k]["previous_feedback"] =
                IF k <= Len(data["previous_feedback"])
                THEN data["previous_feedback"][k]
                ELSE "No previous feedback"

\* C10: a review answered yes sets completed, adds 1 to streak, zeroes
\* negative_streak and neither sets nor changes reason.
C10_ReviewCompleted ==
    [][\A ans \in Answers, fb \in Feedbacks :
          (pc = "review" /\ IsYes(ans) /\ ReviewTaskWith(ans, fb)) =>
              LET old == data["tasks"][i]
                  new == data'["tasks"][i]
              IN  /\ new["completed"] = TRUE
                  /\ new["streak"] = old["streak"] + 1
                  /\ new["negative_streak"] = 0
                  /\ SameKey(old, new, "reason")]_vars

\* C10 witness: a task reviewed as completed three times in a row (streak 2
\* became 3) still carries the reason of the miss before them.
C10_Witness ==
    \E k \in 1..Len(TasksOf(data)) :
        /\ k \in reviewed
        /\ data["tasks"][k]["completed"]
        /\ data["tasks"][k]["streak"] = 3
        /\ data["tasks"][k]["negative_streak"] = 0
        /\ "reason" \in DOMAIN data["tasks"][k]

\* C11: a review answered no sets completed to false, streak to 0, adds 1 to
\* negative_streak and sets reason to the feedback text, or to 'no reason
\* provided' when the feedback is empty.
C11_ReviewMissed ==
    [][\A ans \in Answers, fb \in Feedbacks :
          (pc = "review" /\ ~IsYes(ans) /\ ReviewTaskWith(ans, fb)) =>
              LET old == data["tasks"][i]
                  new == data'["tasks"][i]
              IN  /\ new["completed"] = FALSE
                  /\ new["streak"] = 0
                  /\ new["negative_streak"] = old["negative_streak"] + 1
                  /\ "reason" \in DOMAIN new
                  /\ new["reason"] = IF fb # "" THEN fb ELSE "no reason provided"]_vars

\* C11 witness: the task saved with streak 3, negative_streak 0 and no reason
\* has been reviewed as missed without feedback: streak 0, negative_streak 1,
\* reason 'no reason provided'.
C11_Witness ==
    /\ pc = "advice"
    /\ 1 \in reviewed
    /\ tasks_json[1]["tasks"][1]["streak"] = 3
    /\ tasks_json[1]["tasks"][1]["negative_streak"] = 0
    /\ "reason" \notin DOMAIN tasks_json[1]["tasks"][1]
    /\ data["tasks"][1]["streak"] = 0
    /\ data["tasks"][1]["negative_streak"] = 1
    /\ ~data["tasks"][1]["completed"]
    /\ "feedback" \notin DOMAIN data["tasks"][1]
    /\ Get(data["tasks"][1], "reason", "") = "no reason provided"

\* C12: in the prompt, a task's report has the missed-days line, naming
\* negative_streak, exactly when negative_streak > 0, and the special
\* attention line exactly when negative_streak > 3.
C12_EscalationThreshold ==
    pc = "advice" =>
        \A k \in 1..Len(data["tasks"]) :
            LET n == data["tasks"][k]["negative_streak"]
                r == prompt["task_reports"][k]
            IN  /\ (r["uncompleted"] # <<>>) = (n > 0)
                /\ n > 0 => r["uncompleted"] = <<n>>
                /\ r["special_attention"] = (n > 3)

\* C12 witness: both sides of the threshold: a report for negative_streak 4
\* with the special attention line ...
C12_Witness ==
    /\ pc = "advice"
    /\ data["tasks"][1]["negative_streak"] = 4
    /\ prompt["task_reports"][1]["special_attention"]
    /\ prompt["task_reports"][1]["uncompleted"] = <<4>>

\* ... and a report for negative_streak 3 without it.
C12_WitnessBelow ==
    /\ pc = "advice"
    /\ data["tasks"][1]["negative_streak"] = 3
    /\ ~prompt["task_reports"][1]["special_attention"]

\* The feedback snapshot line 106 takes of a task list.
FeedbackSnapshot(tasks) ==
    [k \in 1..Len(tasks) |-> Get(tasks[k], "feedback", "No feedback provided")]

\* C13: a date-changing rollover replaces previous_feedback by the list of
\* the tasks' feedback ('No feedback provided' where absent), one entry per
\* task; a same-day start keeps the loaded list, and no add, view, review or
\* quit changes it.
C13_PreviousFeedbackSnapshot ==
    [][/\ RolloverStep =>
             /\ data'["previous_feedback"] = FeedbackSnapshot(Loaded["tasks"])
             /\ Len(data'["previous_feedback"]) = Len(data'["tasks"])
       /\ (Start /\ DateIsCurrent) =>
             data'["previous_feedback"] = Loaded["previous_feedback"]
       /\ pc \in {"welcome", "prompt", "review", "advice"} =>
             data'["previous_feedback"] = data["previous_feedback"]]_vars

\* C13 witness: after a rollover that snapshotted one task's feedback and an
\* add, previous_feedback is shorter than the task list.
C13_Witness ==
    /\ pc = "prompt"
    /\ Len(data["tasks"]) = 2
    /\ data["previous_feedback"] = << "tired" >>
    /\ Get(data["tasks"][1], "feedback", "") = "tired"

\* C14: no task has an empty description (an add with an empty description
\* is rejected).
C14_NoEmptyDescription ==
    \A k \in 1..Len(TasksOf(data)) : TasksOf(data)[k]["description"] # ""

\* C15: add appends one record (completed false, streak 0, negative_streak 0,
\* no feedback, no reason) and leaves the existing tasks as they were; no
\* step removes or reorders tasks: the count never decreases and every
\* position keeps its description and its repeating flag.
C15_AddAppendsNoDeletion ==
    [][/\ Add =>
             LET old == data["tasks"]
                 new == data'["tasks"]
             IN  /\ Len(new) = Len(old) + 1
                 /\ SubSeq(new, 1, Len(old)) = old
                 /\ DOMAIN new[Len(new)] =
                       {"description", "completed", "repeating", "streak", "negative_streak"}
                 /\ new[Len(new)]["completed"] = FALSE
                 /\ new[Len(new)]["streak"] = 0
                 /\ new[Len(new)]["negative_streak"] = 0
       /\ Len(TasksOf(data')) >= Len(TasksOf(data))
       /\ \A k \in 1..Len(TasksOf(data)) :
             /\ SameKey(TasksOf(data)[k], TasksOf(data')[k], "description")
             /\ SameKey(TasksOf(data)[k], TasksOf(data')[k], "repeating")]_vars

\* C15 witness: a task with a review behind it is followed by a task just
\* added, and the list is saved.
C15_Witness ==
    /\ pc = "prompt"
    /\ Len(data["tasks"]) = 2
    /\ data["tasks"][1]["streak"] = 1
    /\ Get(data["tasks"][1], "feedback", "") = "tired"
    /\ data["tasks"][2] = [ description |-> "Exercise", completed |-> FALSE,
                            repeating |-> TRUE, streak |-> 0, negative_streak |-> 0 ]
    /\ tasks_json = << data >>

\* C16: the global streak and the goals keep their loaded value: a session
\* start leaves the loaded streak in memory and in the file, no later step
\* of the session changes it, goals is what load_goals returned from the
\* welcome on, and goals.json is never written.
C16_StreakAndGoalsFrozen ==
    [][/\ Start =>
             /\ data'["streak"] = Loaded["streak"]
             /\ load_tasks(tasks_json')["streak"] = Loaded["streak"]
       /\ pc \in {"welcome", "prompt", "review", "advice"} =>
             /\ data'["streak"] = data["streak"]
             /\ load_tasks(tasks_json')["streak"] = data["streak"]
       /\ Welcome => goals' = load_goals(goals_json)
       /\ pc \in {"prompt", "review", "advice"} => goals' = goals
       /\ goals_json' = goals_json]_vars

\* C16 witness: a store loaded with streak 2 has been through a rollover, an
\* add, a review and a quit, and the streak is 2 and the goals the loaded ones.
C16_Witness ==
    /\ pc = "stopped"
    /\ data # EmptyDict
    /\ data["streak"] = 2
    /\ tasks_json[1]["streak"] = 2
    /\ "last_updated" \in DOMAIN data
    /\ Len(data["tasks"]) = 2
    /\ data["tasks"][1]["streak"] = 1
    /\ goals = << "Sleep" >>

\* C17: with no tasks.json, load_tasks returns tasks [], streak 0,
\* previous_feedback [] and no last_updated; with a tasks.json that cannot be
\* decoded, the start of a session fails: no session runs on it, nothing is
\* loaded into memory, and the file is left as it is (no rollover, no save).
C17_LoadOutcomes ==
    /\ [](tasks_json = <<>> =>
             load_tasks(tasks_json) = [tasks |-> <<>>, streak |-> 0, previous_feedback |-> <<>>])
    /\ [](Len(tasks_json) > 1 => pc \in {"stopped", "crashed"} /\ data = EmptyDict)
    /\ [][/\ (tasks_json = <<>> /\ pc' = "welcome") =>
                data' = [tasks |-> <<>>, streak |-> 0, previous_feedback |-> <<>>,
                         last_updated |-> today]
          /\ Len(tasks_json) > 1 =>
                /\ tasks_json' = tasks_json
                /\ data' = data
                /\ pc' \in {"stopped", "crashed"}]_vars

\* C17 witness: a session was started on the undecodable file and ended in
\* the exception, the file untouched.
C17_Witness ==
    /\ pc = "crashed"
    /\ tasks_json = CorruptFile
    /\ data = EmptyDict

\* C18: a review with non-empty feedback sets the task's feedback to that
\* text; a review with empty feedback leaves the feedback key as it was, set
\* or absent, whatever the answer to the completion question.
C18_FeedbackOverwrite ==
    [][\A ans \in Answers, fb \in Feedbacks :
          (pc = "review" /\ ReviewTaskWith(ans, fb)) =>
              LET old == data["tasks"][i]
                  new == data'["tasks"][i]
              IN  /\ fb # "" => "feedback" \in DOMAIN new /\ new["feedback"] = fb
                  /\ fb = "" => SameKey(old, new, "feedback")]_vars

\* C18 witness: the task saved with feedback 'busy' has been reviewed with
\* the feedback 'tired', which replaced it ...
C18_Witness ==
    /\ pc = "advice"
    /\ 1 \in reviewed
    /\ Get(tasks_json[1]["tasks"][1], "feedback", "") = "busy"
    /\ Get(data["tasks"][1], "feedback", "") = "tired"

\* ... and the task saved with feedback 'busy' and not completed has been
\* reviewed as completed with empty feedback, and still has 'busy'.
C18_WitnessKept ==
    /\ pc = "advice"
    /\ 1 \in reviewed
    /\ ~tasks_json[1]["tasks"][1]["completed"]
    /\ Get(tasks_json[1]["tasks"][1], "feedback", "") = "busy"
    /\ data["tasks"][1]["completed"]
    /\ Get(data["tasks"][1], "feedback", "") = "busy"

\* C19: whenever the loop waits for a command (after the start and its
\* rollover, after an add, a view and a summary that returned), when a summary
\* has not yet changed a task, and after quit, loading tasks.json gives the
\* dict in memory.
C19_StoreTracksMemory ==
    (\/ pc \in {"welcome", "prompt"}
     \/ pc = "review" /\ i = 1
     \/ pc = "stopped" /\ data # EmptyDict)
        => /\ ~load_tasks_raises(tasks_json)
           /\ load_tasks(tasks_json) = data

\* C19 witness: back at the prompt after a summary that reviewed the task as
\* completed with feedback, the file holds the reviewed task.
C19_Witness ==
    /\ pc = "prompt"
    /\ 1 \in reviewed
    /\ Len(data["tasks"]) = 1
    /\ data["tasks"][1]["completed"]
    /\ Get(data["tasks"][1], "feedback", "") = "tired"
    /\ tasks_json = << data >>

\* Inside a summary, after the first task is reviewed and before the save,
\* file and memory differ.
C19_WitnessWindow ==
    /\ pc = "advice"
    /\ 1 \in reviewed
    /\ tasks_json # << data >>

\* C20: the rollover check runs only when a session starts: once the
\* session is at its welcome, no step changes last_updated or
\* previous_feedback, a change of the date changes neither memory nor file,
\* and a task changes only when the summary loop reviews it.
C20_RolloverOnlyAtStart ==
    [][/\ (pc' = "welcome" /\ pc # "welcome") => pc \in {"stopped", "crashed"}
       /\ pc \in {"welcome", "prompt", "review", "advice"} =>
             /\ data'["last_updated"] = data["last_updated"]
             /\ data'["previous_feedback"] = data["previous_feedback"]
             /\ today' # today => data' = data /\ tasks_json' = tasks_json
             /\ \A k \in 1..Len(data["tasks"]) :
                   (pc # "review" \/ k # i) => data'["tasks"][k] = data["tasks"][k]]_vars

\* C20 witness: the date changed while the session was running, and at the
\* prompt the repeating task completed on the old date is still completed.
C20_Witness ==
    /\ pc = "prompt"
    /\ data["last_updated"] = 1
    /\ today = 2
    /\ Len(data["tasks"]) >= 1
    /\ data["tasks"][1]["repeating"]
    /\ data["tasks"][1]["completed"]
    /\ data["tasks"][1]["streak"] = 1

====
